---- MODULE Spec2Model ----
(***************************************************************************)
(* Attenda: the App component's attendance store (React state `events`),   *)
(* its localStorage persistence effects, its handlers and calculateStats.  *)
(***************************************************************************)
EXTENDS Integers, Sequences, FiniteSets, TLC

(***************************************************************************)
(* Bounds of the model.                                                    *)
(***************************************************************************)
\* longest `events` array the handlers are allowed to build
MaxEvents == 2
\* FileReader reads that may be in flight at once
MaxPendingReads == 1
\* months the calendar may be moved away from today, either way
MaxMonths == 1
\* longest array handed to calculateStats in StatsSpec
MaxStatsLen == 4

\* the month `new Date()` falls in; time is counted in months since the epoch
Today == 2

(***************************************************************************)
(* JavaScript values.  Every value is a record [type, str, time] so that   *)
(* values of different JavaScript types can be compared.                   *)
(***************************************************************************)
Undefined == [type |-> "undefined", str |-> "", time |-> 0]
Null == [type |-> "null", str |-> "", time |-> 0]
Str(s) == [type |-> "string", str |-> s, time |-> 0]
Bool(b) == [type |-> "boolean", str |-> IF b THEN "true" ELSE "false", time |-> 0]
DateOf(t) == [type |-> "Date", str |-> "", time |-> t]
InvalidDate == [type |-> "Date", str |-> "Invalid Date", time |-> 0]
\* the string Date.prototype.toISOString() gives for the instant t
IsoString(t) == [type |-> "string", str |-> "ISO-8601", time |-> t]

IsValidDate(v) == v.type = "Date" /\ v.str = ""

\* enum AttendanceStatus: the string each member stands for
AttendanceStatus == {"PENDING", "ATTENDED", "ABSENT", "SUSPENDED", "EXCUSED"}

\* interface CalendarEvent: the keys of an occurrence; a key the object does
\* not have holds Undefined
EventKeys ==
  {"id", "uid", "title", "start", "end", "location", "description", "status",
   "overrideTitle", "isOverride", "recurrenceId", "originalDate"}
\* interface CalendarEvent: the keys typed Date
DateKeys == {"start", "end", "originalDate"}
\* interface CalendarEvent: the keys that are not optional
RequiredKeys == {"id", "uid", "title", "start", "end", "status"}

\* the object {} : no key of CalendarEvent is present
EmptyObject == [k \in EventKeys |-> Undefined]

(***************************************************************************)
(* JSON.stringify / JSON.parse and `new Date(x)`.                          *)
(***************************************************************************)
\* what JSON.stringify writes for one property value: a Date goes through
\* Date.prototype.toJSON (ISO string, or null for an Invalid Date); a key that
\* holds undefined is left out
ToJSONValue(v) ==
  IF v.type = "Date"
    THEN IF IsValidDate(v) THEN IsoString(v.time) ELSE Null
    ELSE v

\* new Date(x)
NewDate(v) ==
  CASE v.type = "Date" -> v
    [] v.type = "string" -> IF v.str = "ISO-8601" THEN DateOf(v.time) ELSE InvalidDate
    [] v.type = "null" -> DateOf(0)
    [] v.type = "boolean" -> DateOf(IF v.str = "true" THEN 1 ELSE 0)
    [] OTHER -> InvalidDate

\* values localStorage.getItem('attenda_events') can return.  A stored text is
\* described by what JSON.parse makes of it: kind "array" carries the array's
\* items, each tagged with its JSON type; the keys of an item that is an object
\* are in obj
StorageMissing == [kind |-> "missing", items |-> <<>>]
StorageEmptyString == [kind |-> "empty", items |-> <<>>]
StorageMalformed == [kind |-> "malformed", items |-> <<>>]
StorageNonArray == {[kind |-> k, items |-> <<>>] : k \in {"null", "number", "object"}}
JsonArray(items) == [kind |-> "array", items |-> items]
JsonObject(o) == [json |-> "object", obj |-> o]
JsonNull == [json |-> "null", obj |-> EmptyObject]
JsonNumber == [json |-> "number", obj |-> EmptyObject]

\* JSON.stringify(events)
JSON_stringify(evs) ==
  JsonArray([i \in 1..Len(evs) |->
               JsonObject([k \in EventKeys |-> ToJSONValue(evs[i][k])])])

\* JSON.parse(saved) throws a SyntaxError
ParseThrows(saved) == saved.kind = "malformed"

\* parsed.map(...) throws a TypeError: parsed is null or has no map method, or
\* an item is null so that e.start cannot be read
MapThrows(saved) ==
  \/ saved.kind \in {"null", "number", "object"}
  \/ /\ saved.kind = "array"
     /\ \E i \in 1..Len(saved.items) : saved.items[i].json = "null"

\* ({...e, start: new Date(e.start), end: new Date(e.end)}); spreading a number
\* copies no key
FixDates(item) ==
  [k \in EventKeys |->
     IF k \in {"start", "end"} THEN NewDate(item.obj[k]) ELSE item.obj[k]]

\* const fixed = parsed.map(...)
Fixed(saved) == [i \in 1..Len(saved.items) |-> FixDates(saved.items[i])]

(***************************************************************************)
(* Inputs: what parseICS, the EventModal and an earlier session hand over. *)
(***************************************************************************)
\* a plain lecture, as parsed: status PENDING, no optional key
Lecture ==
  [EmptyObject EXCEPT !.id = Str("e1"), !.uid = Str("u1"), !.title = Str("Math"),
                      !.start = DateOf(Today), !.end = DateOf(Today),
                      !.status = Str("PENDING")]
\* an overridden instance of a recurring event: every optional key is present
Override ==
  [EmptyObject EXCEPT !.id = Str("e2"), !.uid = Str("u1"), !.title = Str("Math"),
                      !.start = DateOf(Today + 1), !.end = DateOf(Today + 1),
                      !.location = Str("Room 1"), !.description = Str("moved"),
                      !.status = Str("PENDING"), !.overrideTitle = Str("Lab"),
                      !.isOverride = Bool(TRUE), !.recurrenceId = Str("u1"),
                      !.originalDate = DateOf(Today)]

\* results of parseICS(content) the model draws an import from
ParsedSamples == {<<>>, <<Lecture>>, <<Override>>, <<Lecture, Override>>}

\* sequences over S of length at most n
SeqsUpTo(S, n) == UNION {[1..m -> S] : m \in 0..n}

\* collections an earlier session may have persisted
StoredSamples ==
  SeqsUpTo({[Lecture EXCEPT !.status = Str("ATTENDED")], Override}, MaxEvents)

\* the value under 'attenda_events' when the process starts
InitialStorage ==
  {StorageMissing, StorageEmptyString, StorageMalformed}
    \cup StorageNonArray
    \cup {JsonArray(<<JsonNull>>), JsonArray(<<JsonNumber>>),
          JsonArray(<<JsonObject(EmptyObject)>>)}
    \cup {JSON_stringify(c) : c \in StoredSamples}

(***************************************************************************)
(* State.                                                                  *)
(***************************************************************************)
VARIABLES
  events,         \* useState<CalendarEvent[]>: the state of the latest render
  currentDate,    \* useState(new Date()): the month on display
  selectedEvent,  \* useState<CalendarEvent | null>: <<>> or <<event>>
  showImport,     \* useState(false)
  filterTitle,    \* useState<string>('All')
  storage,        \* localStorage item 'attenda_events'
  effects,        \* passive effects React has still to run, in order; a save
                  \* effect carries the `events` of the render that created it
  mounted,        \* the component tree is mounted
  phase,          \* "mounting" until the mount's effects have all run
  consoleErrors,  \* console.error calls made
  pendingReads,   \* FileReader reads started and not yet loaded
  filteredEvents, \* StatsSpec: the argument of calculateStats
  stats           \* StatsSpec: <<>> or <<the Stats returned>>

appVars ==
  <<events, currentDate, selectedEvent, showImport, filterTitle, storage,
    effects, mounted, phase, consoleErrors, pendingReads>>
statsVars == <<filteredEvents, stats>>
vars == <<appVars, statsVars>>

LoadEffectEntry == [name |-> "load", events |-> <<>>]
\* a slip: the save effect created with [] as dependencies keeps the first
\* render's `events`
SaveEffectEntry_FirstRender(evs) == [name |-> "save", events |-> <<>>]
SaveEffectEntry(evs) == [name |-> "save", events |-> evs]

\* useState initial values and the effects of the first render
AppInit ==
  /\ events = <<>>
  /\ currentDate = Today
  /\ selectedEvent = <<>>
  /\ showImport = FALSE
  /\ filterTitle = Str("All")
  /\ effects = <<LoadEffectEntry, SaveEffectEntry(<<>>)>>
  /\ mounted = TRUE
  /\ phase = "mounting"
  /\ consoleErrors = 0
  /\ pendingReads = 0

Init ==
  /\ AppInit
  /\ storage \in InitialStorage
  /\ filteredEvents = <<>>
  /\ stats = <<>>

(***************************************************************************)
(* The effects of App.                                                     *)
(***************************************************************************)
\* if (saved): null and '' are falsy
Truthy(saved) == saved.kind \notin {"missing", "empty"}

\* every pending effect has run: React is idle and the next event is handled
Quiescent == mounted /\ effects = <<>>

\* useEffect(() => {...}, []): load from local storage on mount.  setEvents(fixed)
\* asks for a re-render, whose save effect runs after the mount's own effects
LoadEffect ==
  /\ mounted
  /\ effects # <<>>
  /\ Head(effects).name = "load"
  /\ IF ~Truthy(storage)
       THEN /\ effects' = Tail(effects)
            /\ UNCHANGED <<events, consoleErrors>>
       ELSE IF ParseThrows(storage) \/ MapThrows(storage)
         THEN /\ consoleErrors' = consoleErrors + 1
              /\ effects' = Tail(effects)
              /\ UNCHANGED events
         ELSE /\ events' = Fixed(storage)
              /\ effects' = Append(Tail(effects), SaveEffectEntry(Fixed(storage)))
              /\ UNCHANGED consoleErrors
  /\ UNCHANGED <<currentDate, selectedEvent, showImport, filterTitle, storage,
                 mounted, phase, pendingReads, statsVars>>

\* useEffect(() => localStorage.setItem(..., JSON.stringify(events)), [events]).
\* ok = FALSE: setItem throws (quota); nothing catches it, so the error leaves
\* the effect and React unmounts the component tree.  After the unmount no
\* handler or effect runs any more; the state variables keep the values of the
\* last render
SaveEffect(ok) ==
  /\ mounted
  /\ effects # <<>>
  /\ Head(effects).name = "save"
  /\ IF ok
       THEN /\ storage' = JSON_stringify(Head(effects).events)
            /\ effects' = Tail(effects)
            /\ phase' = IF Tail(effects) = <<>> THEN "running" ELSE phase
            /\ UNCHANGED mounted
       ELSE /\ mounted' = FALSE
            /\ effects' = <<>>
            /\ UNCHANGED <<storage, phase>>
  /\ UNCHANGED <<events, currentDate, selectedEvent, showImport, filterTitle,
                 consoleErrors, pendingReads, statsVars>>

(***************************************************************************)
(* The handlers of App.  A handler runs when React is idle; setEvents(x)   *)
(* re-renders with x and queues that render's save effect.                 *)
(***************************************************************************)
\* onClick={() => setShowImport(!showImport)}
ToggleImport ==
  /\ Quiescent
  /\ showImport' = ~showImport
  /\ UNCHANGED <<events, currentDate, selectedEvent, filterTitle, storage,
                 effects, mounted, phase, consoleErrors, pendingReads, statsVars>>

\* handleFileUpload: without a file it returns; with one it starts the read
handleFileUpload(hasFile) ==
  /\ Quiescent
  /\ showImport
  /\ pendingReads < MaxPendingReads
  /\ pendingReads' = IF hasFile THEN pendingReads + 1 ELSE pendingReads
  /\ UNCHANGED <<events, currentDate, selectedEvent, showImport, filterTitle,
                 storage, effects, mounted, phase, consoleErrors, statsVars>>

\* a slip: parsed occurrences whose id the store already holds are dropped
MergeImport_DedupById(prev, parsedEvents) ==
  prev \o SelectSeq(parsedEvents,
                    LAMBDA e : \A i \in 1..Len(prev) : prev[i].id # e.id)

\* [...prev, ...parsedEvents]
MergeImport(prev, parsedEvents) == prev \o parsedEvents

\* reader.onload: parse the content, append, hide the import panel
ReaderOnload(parsedEvents) ==
  /\ Quiescent
  /\ pendingReads > 0
  /\ Len(events) + Len(parsedEvents) <= MaxEvents
  /\ pendingReads' = pendingReads - 1
  /\ events' = MergeImport(events, parsedEvents)
  /\ effects' = <<SaveEffectEntry(events')>>
  /\ showImport' = FALSE
  /\ UNCHANGED <<currentDate, selectedEvent, filterTitle, storage, mounted,
                 phase, consoleErrors, statsVars>>

\* a slip: the answer of window.confirm is not looked at
handleClearData_NoConfirm(confirmed) ==
  /\ Quiescent
  /\ events' = <<>>
  /\ effects' = <<SaveEffectEntry(<<>>)>>
  /\ UNCHANGED <<currentDate, selectedEvent, showImport, filterTitle, storage,
                 mounted, phase, consoleErrors, pendingReads, statsVars>>

\* handleClearData: window.confirm answers `confirmed`
handleClearData(confirmed) ==
  /\ Quiescent
  /\ IF confirmed
       THEN /\ events' = <<>>
            /\ effects' = <<SaveEffectEntry(<<>>)>>
       ELSE UNCHANGED <<events, effects>>
  /\ UNCHANGED <<currentDate, selectedEvent, showImport, filterTitle, storage,
                 mounted, phase, consoleErrors, pendingReads, statsVars>>

\* isSameDay(e.start, day), with the month as the unit of time
isSameDay(date, day) == IsValidDate(date) /\ date.time = day

\* monthEvents.filter(e => isSameDay(e.start, day)) over the days of the grid
dayEvents == {events[i] : i \in {j \in 1..Len(events) : isSameDay(events[j].start, currentDate)}}

\* onClick={() => setSelectedEvent(event)} on an event button of the grid
SelectEvent(event) ==
  /\ Quiescent
  /\ event \in dayEvents
  /\ selectedEvent' = <<event>>
  /\ UNCHANGED <<events, currentDate, showImport, filterTitle, storage, effects,
                 mounted, phase, consoleErrors, pendingReads, statsVars>>

\* onClose={() => setSelectedEvent(null)}
CloseModal ==
  /\ Quiescent
  /\ selectedEvent # <<>>
  /\ selectedEvent' = <<>>
  /\ UNCHANGED <<events, currentDate, showImport, filterTitle, storage, effects,
                 mounted, phase, consoleErrors, pendingReads, statsVars>>

\* records the EventModal hands to onSave for the event it shows
ModalResults(event) == {[event EXCEPT !.status = Str(s)] : s \in AttendanceStatus}

\* the records the modal can hand over in this state
UpdateInputs ==
  IF selectedEvent = <<>> THEN {} ELSE ModalResults(selectedEvent[1])

\* a slip: occurrences matched on uid, which instances of a series share
MapUpdate_ByUid(evs, updated) ==
  [i \in 1..Len(evs) |-> IF evs[i].uid = updated.uid THEN updated ELSE evs[i]]

\* events.map(e => e.id === updated.id ? updated : e)
MapUpdate(evs, updated) ==
  [i \in 1..Len(evs) |-> IF evs[i].id = updated.id THEN updated ELSE evs[i]]

\* handleUpdateEvent, called by the modal's onSave
handleUpdateEvent(updated) ==
  /\ Quiescent
  /\ updated \in UpdateInputs
  /\ events' = MapUpdate(events, updated)
  /\ effects' = <<SaveEffectEntry(events')>>
  /\ selectedEvent' = <<>>
  /\ UNCHANGED <<currentDate, showImport, filterTitle, storage, mounted, phase,
                 consoleErrors, pendingReads, statsVars>>

\* Array.from(new Set(events.map(e => e.title))): the titles offered as options
uniqueTitles ==
  {events[i].title : i \in {j \in 1..Len(events) : events[j].title.type = "string"}}

\* onChange={(e) => setFilterTitle(e.target.value)}
SelectFilter(title) ==
  /\ Quiescent
  /\ title \in {Str("All")} \cup uniqueTitles
  /\ filterTitle' = title
  /\ UNCHANGED <<events, currentDate, selectedEvent, showImport, storage, effects,
                 mounted, phase, consoleErrors, pendingReads, statsVars>>

\* setCurrentDate(subMonths(currentDate, 1)), new Date(), addMonths(currentDate, 1)
NavigateMonth(target) ==
  /\ Quiescent
  /\ target \in {currentDate - 1, Today, currentDate + 1}
  /\ target >= Today - MaxMonths
  /\ target <= Today + MaxMonths
  /\ currentDate' = target
  /\ UNCHANGED <<events, selectedEvent, showImport, filterTitle, storage, effects,
                 mounted, phase, consoleErrors, pendingReads, statsVars>>

Next ==
  \/ LoadEffect
  \/ \E ok \in BOOLEAN : SaveEffect(ok)
  \/ ToggleImport
  \/ \E hasFile \in BOOLEAN : handleFileUpload(hasFile)
  \/ \E parsedEvents \in ParsedSamples : ReaderOnload(parsedEvents)
  \/ \E confirmed \in BOOLEAN : handleClearData(confirmed)
  \/ \E event \in dayEvents : SelectEvent(event)
  \/ CloseModal
  \/ \E updated \in UpdateInputs : handleUpdateEvent(updated)
  \/ \E title \in {Str("All")} \cup uniqueTitles : SelectFilter(title)
  \/ \E target \in (Today - MaxMonths)..(Today + MaxMonths) : NavigateMonth(target)

Spec == Init /\ [][Next]_vars

(***************************************************************************)
(* Statistics.                                                             *)
(***************************************************************************)
\* let total = 0 ... let pending = 0
ZeroCounts == [attended |-> 0, absent |-> 0, suspended |-> 0, excused |-> 0, pending |-> 0]

\* a slip: an EXCUSED occurrence counted as attended
CountEvent_ExcusedAttends(c, e) ==
  IF e.status = Str("SUSPENDED") THEN [c EXCEPT !.suspended = @ + 1]
  ELSE IF e.status = Str("EXCUSED") THEN [c EXCEPT !.excused = @ + 1, !.attended = @ + 1]
  ELSE IF e.status = Str("ATTENDED") THEN [c EXCEPT !.attended = @ + 1]
  ELSE IF e.status = Str("ABSENT") THEN [c EXCEPT !.absent = @ + 1]
  ELSE [c EXCEPT !.pending = @ + 1]

\* the body of filteredEvents.forEach(e => {...})
CountEvent(c, e) ==
  IF e.status = Str("SUSPENDED") THEN [c EXCEPT !.suspended = @ + 1]
  ELSE IF e.status = Str("EXCUSED") THEN [c EXCEPT !.excused = @ + 1]
  ELSE IF e.status = Str("ATTENDED") THEN [c EXCEPT !.attended = @ + 1]
  ELSE IF e.status = Str("ABSENT") THEN [c EXCEPT !.absent = @ + 1]
  ELSE [c EXCEPT !.pending = @ + 1]

\* filteredEvents.forEach, from the first event to the last
RECURSIVE forEach(_, _)
forEach(evs, c) ==
  IF evs = <<>> THEN c ELSE forEach(Tail(evs), CountEvent(c, Head(evs)))

\* a slip: the attended count weighted by 3 instead of 4
NeededFor75_WrongWeight(total, attended) ==
  LET neededRaw == (3 * total) - (3 * attended)
  IN  IF neededRaw > 0 THEN neededRaw ELSE 0

\* const neededRaw = (3 * total) - (4 * attended); neededRaw > 0 ? neededRaw : 0
NeededFor75(total, attended) ==
  LET neededRaw == (3 * total) - (4 * attended)
  IN  IF neededRaw > 0 THEN neededRaw ELSE 0

\* total === 0 ? 0 : (attended / total) * 100, kept as the exact fraction num/den
Percentage(total, attended) ==
  IF total = 0 THEN [num |-> 0, den |-> 1] ELSE [num |-> attended * 100, den |-> total]

\* calculateStats(filteredEvents)
calculateStats(evs) ==
  LET c == forEach(evs, ZeroCounts)
      total == c.attended + c.absent
  IN  [total |-> total, attended |-> c.attended, absent |-> c.absent,
       suspended |-> c.suspended, excused |-> c.excused, pending |-> c.pending,
       percentage |-> Percentage(total, c.attended),
       neededFor75 |-> NeededFor75(total, c.attended)]

\* filterTitle === 'All' ? events : events.filter(e => e.title === filterTitle)
Subset(evs, title) ==
  IF title = Str("All") THEN evs ELSE SelectSeq(evs, LAMBDA e : e.title = title)

\* useMemo(() => calculateStats(subset), [events, filterTitle])
currentStats == calculateStats(Subset(events, filterTitle))

\* status strings an occurrence handed to calculateStats may carry: the enum's
\* members and one string that is none of them
StatsStatuses == AttendanceStatus \cup {"LATE"}

\* arrays handed to calculateStats in StatsSpec
StatsInputs ==
  {[i \in 1..Len(f) |-> [Lecture EXCEPT !.status = Str(f[i])]] :
     f \in SeqsUpTo(StatsStatuses, MaxStatsLen)}

StatsInit ==
  /\ AppInit
  /\ storage = StorageMissing
  /\ filteredEvents \in StatsInputs
  /\ stats = <<>>

\* one call of calculateStats
ComputeStats ==
  /\ stats = <<>>
  /\ stats' = <<calculateStats(filteredEvents)>>
  /\ UNCHANGED <<appVars, filteredEvents>>

StatsNext == ComputeStats

StatsSpec == StatsInit /\ [][StatsNext]_vars

(***************************************************************************)
(* Properties.                                                             *)
(***************************************************************************)
\* the statuses of the argument of calculateStats, counted over its indices
NumberWith(S) ==
  Cardinality({i \in 1..Len(filteredEvents) : filteredEvents[i].status \in S})
Settled == {Str("ATTENDED"), Str("ABSENT")}
Named == {Str(s) : s \in {"SUSPENDED", "EXCUSED", "ATTENDED", "ABSENT"}}

\* C3: the neededFor75 calculateStats returns is the least x >= 0 with
\* 4*(attended + x) >= 3*(total + x), attended and total being the numbers of
\* ATTENDED and of ATTENDED-or-ABSENT occurrences of the argument: the
\* threshold is met with x more attendances and, when x > 0, not with x - 1;
\* and x = max(0, 3*total - 4*attended).
C3_NeededFor75IsMinimal ==
  stats # <<>> =>
    LET x == stats[1].neededFor75
        attended == NumberWith({Str("ATTENDED")})
        total == NumberWith(Settled)
    IN  /\ x >= 0
        /\ 4 * (attended + x) >= 3 * (total + x)
        /\ x > 0 => 4 * (attended + x - 1) < 3 * (total + x - 1)
        /\ \A y \in 0..(3 * MaxStatsLen) :
             4 * (attended + y) >= 3 * (total + y) => x <= y
        /\ x = IF 3 * total - 4 * attended > 0 THEN 3 * total - 4 * attended ELSE 0

\* C3 witness: [ATTENDED, ABSENT, ABSENT] has been evaluated and needs 5 more
C3_Witness ==
  /\ stats # <<>>
  /\ Len(filteredEvents) = 3
  /\ NumberWith({Str("ATTENDED")}) = 1
  /\ NumberWith({Str("ABSENT")}) = 2
  /\ stats[1].neededFor75 = 5

\* C4: calculateStats puts every occurrence in exactly one counter by its
\* status (anything that is none of SUSPENDED, EXCUSED, ATTENDED, ABSENT is
\* pending), so the five counters add up to the number of occurrences,
\* total = attended + absent and total <= the number of occurrences.
C4_ClassificationPartitions ==
  stats # <<>> =>
    LET s == stats[1]
    IN  /\ s.suspended = NumberWith({Str("SUSPENDED")})
        /\ s.excused = NumberWith({Str("EXCUSED")})
        /\ s.attended = NumberWith({Str("ATTENDED")})
        /\ s.absent = NumberWith({Str("ABSENT")})
        /\ s.pending = Len(filteredEvents) - NumberWith(Named)
        /\ s.suspended + s.excused + s.attended + s.absent + s.pending
             = Len(filteredEvents)
        /\ s.total = s.attended + s.absent
        /\ s.total <= Len(filteredEvents)

\* C4 witness: an argument with a PENDING, an unknown, an EXCUSED and an
\* ATTENDED occurrence has been evaluated
C4_Witness ==
  /\ stats # <<>>
  /\ NumberWith({Str("PENDING")}) = 1
  /\ NumberWith({Str("LATE")}) = 1
  /\ NumberWith({Str("EXCUSED")}) = 1
  /\ NumberWith({Str("ATTENDED")}) = 1
  /\ stats[1].pending = 2
  /\ stats[1].total = 1

\* an item of a stored array is a serialized occurrence: an object whose
\* required keys hold strings, the dates in ISO form, the status one of the enum
IsSerializedOccurrence(item) ==
  /\ item.json = "object"
  /\ \A k \in RequiredKeys : item.obj[k].type = "string"
  /\ \A k \in DateKeys :
       item.obj[k].type = "undefined" \/ item.obj[k].str = "ISO-8601"
  /\ item.obj.status.str \in AttendanceStatus

\* the stored value is a valid serialized occurrence collection
ValidCollection(saved) ==
  /\ saved.kind = "array"
  /\ \A i \in 1..Len(saved.items) : IsSerializedOccurrence(saved.items[i])

\* an in-memory occurrence typed as interface CalendarEvent declares it
WellTyped(e) ==
  /\ \A k \in RequiredKeys \ DateKeys : e[k].type = "string"
  /\ IsValidDate(e.start)
  /\ IsValidDate(e.end)
  /\ e.originalDate.type = "undefined" \/ IsValidDate(e.originalDate)

\* the collection a start makes of the stored value `saved`
Reloaded(saved) ==
  IF Truthy(saved) /\ ~ParseThrows(saved) /\ ~MapThrows(saved)
    THEN Fixed(saved)
    ELSE <<>>

\* C1: for every collection of well-typed occurrences the store holds, saving
\* it and loading it again gives the same collection: same length and order,
\* every field equal, and start, end and (when present) originalDate of the
\* Date type again.
C1_RoundTrip ==
  (\A i \in 1..Len(events) : WellTyped(events[i])) =>
    LET back == Reloaded(JSON_stringify(events))
    IN  /\ Len(back) = Len(events)
        /\ \A i \in 1..Len(events) :
             /\ \A k \in EventKeys : back[i][k] = events[i][k]
             /\ \A k \in DateKeys :
                  events[i][k].type = "Date" => back[i][k].type = "Date"

\* C2: a save whose write fails leaves the application running with the
\* collection of the mutation still in memory.
C2_WriteFailureIsNotFatal ==
  [][SaveEffect(FALSE) => (mounted' /\ events' = events)]_vars

\* the ids of a collection
IdsOf(evs) == {evs[i].id : i \in 1..Len(evs)}

\* C5: no step removes an occurrence id from the store except a confirmed
\* clear, which empties it; a declined clear leaves the store as it is.
C5_OnlyConfirmedClearDeletes ==
  [][/\ handleClearData(TRUE) => events' = <<>>
     /\ handleClearData(FALSE) => events' = events
     /\ ~handleClearData(TRUE) => IdsOf(events) \subseteq IdsOf(events')]_vars

\* C5 witness: after imports, an update, a filter selection and a month
\* navigation the store still holds both occurrences
C5_Witness ==
  /\ Quiescent
  /\ IdsOf(events) = {Str("e1"), Str("e2")}
  /\ \E i \in 1..Len(events) : events[i].status = Str("ABSENT")
  /\ filterTitle = Str("Math")
  /\ currentDate = Today + 1
  /\ consoleErrors = 0

\* C6: an import of the parsed occurrences P into a store holding S makes the
\* store S followed by P: S keeps its positions and fields, every occurrence of
\* P is there even when S holds one with the same id or uid, and with P empty
\* the contents do not change.
C6_ImportAppends ==
  [][\A P \in ParsedSamples :
       ReaderOnload(P) =>
         /\ Len(events') = Len(events) + Len(P)
         /\ \A i \in 1..Len(events) : events'[i] = events[i]
         /\ \A j \in 1..Len(P) : events'[Len(events) + j] = P[j]
         /\ P = <<>> => events' = events]_vars

\* C6 witness: the lecture marked ATTENDED is followed by the same lecture
\* imported again, with the import's save still to run
C6_Witness ==
  /\ events = <<[Lecture EXCEPT !.status = Str("ATTENDED")], Lecture>>
  /\ effects = <<SaveEffectEntry(events)>>
  /\ showImport = FALSE
  /\ phase = "running"

\* C7: handleUpdateEvent(updated) puts `updated` at every position whose id
\* is updated.id and leaves every other position, the length and the order as
\* they were; with no such id the contents do not change.
C7_UpdateById ==
  [][\A updated \in UpdateInputs :
       handleUpdateEvent(updated) =>
         /\ Len(events') = Len(events)
         /\ \A i \in 1..Len(events) :
              /\ events[i].id = updated.id => events'[i] = updated
              /\ events[i].id # updated.id => events'[i] = events[i]
         /\ updated.id \notin IdsOf(events) => events' = events]_vars

\* C7 witness: of two occurrences the lecture has been set to EXCUSED and the
\* other is as imported, with the update's save still to run
C7_Witness ==
  /\ events = <<[Lecture EXCEPT !.status = Str("EXCUSED")], Override>>
  /\ effects = <<SaveEffectEntry(events)>>
  /\ selectedEvent = <<>>
  /\ showImport = TRUE

\* C8: a start on a stored value that is no valid serialized collection (or
\* on none) keeps the application running with an empty store, and every save
\* it leaves pending writes the empty collection.
C8_CorruptLoadStartsEmpty ==
  [][(LoadEffect /\ (~ValidCollection(storage) \/ ~Truthy(storage))) =>
       /\ mounted'
       /\ events' = <<>>
       /\ \A i \in 1..Len(effects') : effects'[i].events = <<>>]_vars

\* C9: whenever every pending effect has run, the stored value is the
\* serialization of the collection in memory.
C9_PersistedAgreesWhenQuiescent ==
  Quiescent => storage = JSON_stringify(events)

\* C9 witness: after an import and an update React is idle and the stored
\* value is the serialization of the two occurrences
C9_Witness ==
  /\ Quiescent
  /\ phase = "running"
  /\ events = <<[Lecture EXCEPT !.status = Str("ABSENT")], Override>>
  /\ storage = JSON_stringify(events)

\* C10: while the application mounts on a valid, non-empty stored collection,
\* no step changes the stored value.
C10_StartupKeepsPersisted ==
  [][(phase = "mounting" /\ ValidCollection(storage) /\ storage.items # <<>>) =>
       storage' = storage]_vars

====
